---- MODULE Spec2Model ----
(***************************************************************************)
(* Bareos: the dedup storage backend (stored/backends/dedup_file_device.cc) *)
(* and the virtual-backup consolidator (dird/vbackup.cc).                   *)
(*                                                                         *)
(* A wire block is a sequence of cells.  The block header and the record   *)
(* header are one cell each; the cell's value is the header's size field   *)
(* (BlockSize, DataSize), the other header fields travel with it verbatim  *)
(* and are never inspected by the codec.  Payload bytes are cells too.     *)
(***************************************************************************)
EXTENDS Integers, Sequences, FiniteSets, TLC

\* ------------------------------------------------------------------ bounds
\* longest buffer handed to scatter / largest destination handed to gather
MaxLen == 3
\* capacity of the volume directory: cells over its three segments
MaxCells == 4
\* cells of unreferenced tail garbage beyond which no further I/O error strikes
MaxGarbage == 0
\* most opens of the device (fd_ctr is a monotonic counter)
MaxFd == 1

\* ------------------------------------------------------- program constants
\* sizeof(dedup::bareos_block_header), in cells
blockheader_size == 1
\* sizeof(dedup::bareos_record_header), in cells
recheader_size == 1
\* 2^32 scaled down: the number of values of one half of the (file, block) pair
Word == 4

Byte == 0..MaxLen

\* every buffer of at most n cells
BuffersUpTo(n) == UNION {[1..k -> Byte] : k \in 0..n}
Buffers == BuffersUpTo(MaxLen)

VARIABLES
  mounted,      \* dedup_file_device::mounted
  open_volume,  \* open_volume.has_value()
  volume,       \* the volume directory: its three segments and the ok flag
  fd_ctr,       \* dedup_file_device::fd_ctr
  file,         \* Device::file
  block_num,    \* Device::block_num
  eot,          \* the ST_EOT state bit (SetEot / ClearEot)
  last,         \* the last operation and what it returned
  written,      \* the blocks scattered since the last reset, by index
  volume_config \* name, permissions and block size of the open volume

VARIABLES
  catalog,      \* the Job table of the catalog: a row, or NoRow, per JobId
  jcr,          \* the JobControlRecord of the virtual backup job
  trace,        \* the messages emitted and the collaborators called, in order
  pc,           \* the phase the job is in
  delivered,    \* the rows GetFileList has handed to the bootstrap handler
  bsr           \* the RestoreBootstrapRecord being built

devVars == <<mounted, open_volume, volume, fd_ctr, file, block_num, eot, last, written,
             volume_config>>
dirVars == <<catalog, jcr, trace, pc>>
bsrVars == <<delivered, bsr>>
vars == <<devVars, dirVars, bsrVars>>

\* ------------------------------------------------------------ volume store
EmptyVolume == [blocks |-> <<>>, records |-> <<>>, data |-> <<>>, ok |-> TRUE]

vol_size(vol) == Len(vol.blocks)

vol_reset(vol) == [vol EXCEPT !.blocks = <<>>, !.records = <<>>, !.data = <<>>]

\* an I/O error marks the volume not-ok
vol_fail(vol) == [vol EXCEPT !.ok = FALSE]

\* appends the payload to the data segment; the location is where it begins
append_data(vol, payload) ==
  [vol |-> [vol EXCEPT !.data = vol.data \o payload],
   begin |-> Len(vol.data), file_index |-> 0]

\* appends the descriptors contiguously; returns the index of the first
append_records(vol, records) ==
  [vol |-> [vol EXCEPT !.records = vol.records \o records],
   start |-> Len(vol.records)]

append_block(vol, block) == [vol EXCEPT !.blocks = Append(vol.blocks, block)]

\* block index i is 0-based
read_block(vol, i) ==
  IF i < Len(vol.blocks) THEN [ok |-> TRUE, block |-> vol.blocks[i + 1]]
  ELSE [ok |-> FALSE, block |-> [BareosHeader |-> 0, start |-> 0, count |-> 0]]

ZeroRecord == [BareosHeader |-> 0, start |-> 0, size |-> 0, file_index |-> 0]

read_records(vol, start, count) ==
  IF start + count <= Len(vol.records)
  THEN [ok |-> TRUE, records |-> SubSeq(vol.records, start + 1, start + count)]
  ELSE [ok |-> FALSE, records |-> [k \in 1..count |-> ZeroRecord]]

read_data(vol, file_index, begin, size) ==
  IF file_index = 0 /\ begin + size <= Len(vol.data)
  THEN [ok |-> TRUE, bytes |-> SubSeq(vol.data, begin + 1, begin + size)]
  ELSE [ok |-> FALSE, bytes |-> <<>>]

\* ------------------------------------------------------------------ scatter
\* where an I/O error strikes during one scatter: nowhere, at the j-th
\* append_data, at append_records or at append_block
FailPoints ==
  {<<"none", 0>>, <<"records", 0>>, <<"block", 0>>} \cup {<<"data", j>> : j \in 1..(MaxLen - blockheader_size)}

Call(name, ok) == [op |-> name, ok |-> ok]

\* a payload that runs past the end of the block is cut at the block end
payload_end_of(payload_start, DataSize, end) ==
  IF payload_start + DataSize > end THEN end ELSE payload_start + DataSize

\* record_descriptor with the declared DataSize kept as the stored length
record_descriptor_declared(record, written_loc, payload_size) ==
  [BareosHeader |-> record, start |-> written_loc.begin, size |-> record,
   file_index |-> written_loc.file_index]

\* the descriptor scatter keeps for one record: the header as it came, where
\* the payload went and how much of it was stored
record_descriptor(record, written_loc, payload_size) ==
  [BareosHeader |-> record, start |-> written_loc.begin, size |-> payload_size,
   file_index |-> written_loc.file_index]

\* the record loop of scatter; current and end are offsets into data
RECURSIVE scatter_loop(_, _, _, _, _, _, _)
scatter_loop(vol, data, current, end, records, fail, calls) ==
  IF current = end
  THEN [ok |-> TRUE, vol |-> vol, records |-> records, calls |-> calls, current |-> current]
  ELSE IF current + recheader_size > end
  THEN [ok |-> FALSE, vol |-> vol, records |-> records, calls |-> calls, current |-> current]
  ELSE
    LET record == data[current + 1]
        payload_start == current + recheader_size
        payload_end == payload_end_of(payload_start, record, end)
        payload_size == payload_end - payload_start
        payload == SubSeq(data, payload_start + 1, payload_end)
        written_loc == append_data(vol, payload)
    IN IF ~vol.ok \/ fail = <<"data", Len(records) + 1>>
       THEN [ok |-> FALSE, vol |-> vol_fail(vol), records |-> records,
             calls |-> Append(calls, Call("append_data", FALSE)), current |-> current]
       ELSE scatter_loop(written_loc.vol, data, payload_end, end,
                         Append(records, record_descriptor(record, written_loc, payload_size)),
                         fail, Append(calls, Call("append_data", TRUE)))

\* scatter_index with the block descriptor appended before the records
scatter_index_block_first(vol, block, loop, fail) ==
  IF ~loop.vol.ok \/ fail = <<"block", 0>>
  THEN [ret |-> -1, vol |-> vol_fail(loop.vol),
        calls |-> Append(loop.calls, Call("append_block", FALSE))]
  ELSE
    LET vol1 == append_block(loop.vol, [BareosHeader |-> block, start |-> Len(loop.vol.records),
                                        count |-> Len(loop.records)])
        calls1 == Append(loop.calls, Call("append_block", TRUE))
    IN IF fail = <<"records", 0>>
       THEN [ret |-> -1, vol |-> vol_fail(vol1),
             calls |-> Append(calls1, Call("append_records", FALSE))]
       ELSE [ret |-> loop.current, vol |-> append_records(vol1, loop.records).vol,
             calls |-> Append(calls1, Call("append_records", TRUE))]

\* what scatter does once the record loop has ended well
scatter_index(vol, block, loop, fail) ==
  IF ~loop.vol.ok \/ fail = <<"records", 0>>
  THEN [ret |-> -1, vol |-> vol_fail(loop.vol),
        calls |-> Append(loop.calls, Call("append_records", FALSE))]
  ELSE
    LET start == append_records(loop.vol, loop.records)
        calls1 == Append(loop.calls, Call("append_records", TRUE))
    IN IF fail = <<"block", 0>>
       THEN [ret |-> -1, vol |-> vol_fail(start.vol),
             calls |-> Append(calls1, Call("append_block", FALSE))]
       ELSE [ret |-> loop.current,
             vol |-> append_block(start.vol, [BareosHeader |-> block, start |-> start.start,
                                              count |-> Len(loop.records)]),
             calls |-> Append(calls1, Call("append_block", TRUE))]

\* scatter returning the size it was given instead of the bytes it consumed
scatter_returns_size(vol, data, size, fail) ==
  IF size < blockheader_size \/ size < data[1] THEN [ret |-> -1, vol |-> vol, calls |-> <<>>]
  ELSE
    LET loop == scatter_loop(vol, data, blockheader_size, data[1], <<>>, fail, <<>>)
        sc == scatter_index(vol, data[1], loop, fail)
    IN IF ~loop.ok THEN [ret |-> -1, vol |-> loop.vol, calls |-> loop.calls]
       ELSE IF sc.ret = -1 THEN sc ELSE [sc EXCEPT !.ret = size]

scatter(vol, data, size, fail) ==
  IF size < blockheader_size THEN [ret |-> -1, vol |-> vol, calls |-> <<>>]
  ELSE
    LET block == data[1]
        bsize == block
    IN IF size < bsize THEN [ret |-> -1, vol |-> vol, calls |-> <<>>]
       ELSE
         LET loop == scatter_loop(vol, data, blockheader_size, bsize, <<>>, fail, <<>>)
         IN IF ~loop.ok THEN [ret |-> -1, vol |-> loop.vol, calls |-> loop.calls]
            ELSE scatter_index(vol, block, loop, fail)

\* ------------------------------------------------------------------- gather
\* which segment read fails during one gather
ReadFails == {"none", "block", "records", "data"}

GatherErr == [ret |-> -1, out |-> <<>>]

\* the record loop of gather; out is what buf holds so far
RECURSIVE gather_loop(_, _, _, _, _)
gather_loop(vol, records, size, out, rfail) ==
  IF records = <<>> THEN [ret |-> Len(out), out |-> out]
  ELSE
    LET record == Head(records)
    IN IF Len(out) + recheader_size > size THEN GatherErr
       ELSE
         LET out1 == Append(out, record.BareosHeader)
             rd == read_data(vol, record.file_index, record.start, record.size)
         IN IF Len(out1) + record.size > size \/ ~rd.ok \/ rfail = "data"
            THEN GatherErr
            ELSE gather_loop(vol, Tail(records), size, out1 \o rd.bytes, rfail)

gather(vol, blocknum, size, rfail) ==
  LET rb == read_block(vol, blocknum)
      block == rb.block
  IN IF ~rb.ok \/ rfail = "block" THEN GatherErr
     ELSE IF block.BareosHeader > size THEN GatherErr
     ELSE IF blockheader_size > size THEN GatherErr
     ELSE
       LET rr == read_records(vol, block.start, block.count)
           \* the result of read_records is not looked at: on failure the
           \* vector keeps its value-initialised descriptors
           records == IF rr.ok /\ rfail # "records" THEN rr.records
                      ELSE [k \in 1..block.count |-> ZeroRecord]
       IN gather_loop(vol, records, size, <<block.BareosHeader>>, rfail)

\* ------------------------------------------------------------ device facade
block_number(rfile, rblock) == rfile * Word + rblock

\* the last call: its name, its result and the descriptor it was given
\* and whether it reset the volume
RetFdReset(name, r, fd, reset) == [op |-> name, ret |-> r, fd |-> fd, reset |-> reset]
RetFd(name, r, fd) == RetFdReset(name, r, fd, FALSE)
Ret(name, r) == RetFd(name, r, 0)

\* the first BlockSize cells of a buffer that scatter accepted
Accepted(data) == SubSeq(data, 1, data[1])

\* dedup_options::parse: the block size of the options, 4096 when they name none
DefaultBlockSize == 4096
options_blocksize(dev_options) ==
  IF dev_options = "blocksize=8k" THEN 2 * DefaultBlockSize ELSE DefaultBlockSize

\* what the open volume was constructed with; the device has one volume
\* directory
VolumeName == "Full-0001"
Permissions == {"0640", "0600"}
NoConfig == [name |-> "", permissions |-> "", blocksize |-> 0]

\* the device runs in the storage daemon: no director job in these behaviours
NoJob ==
  /\ catalog = <<>>
  /\ jcr = <<>>
  /\ trace = <<>>
  /\ pc = "none"
  /\ delivered = <<>>
  /\ bsr = {}

Init ==
  /\ mounted = FALSE
  /\ open_volume = FALSE
  /\ volume = EmptyVolume
  /\ fd_ctr = 0
  /\ file = 0
  /\ block_num = 0
  /\ eot = FALSE
  /\ last = Ret("init", 0)
  /\ written = <<>>
  /\ volume_config = NoConfig
  /\ NoJob

MountBackend ==
  /\ mounted' = TRUE
  /\ last' = Ret("MountBackend", ~mounted)
  /\ UNCHANGED <<open_volume, volume, fd_ctr, file, block_num, eot, written, dirVars, bsrVars, volume_config>>

UnmountBackend ==
  /\ mounted' = FALSE
  /\ last' = Ret("UnmountBackend", mounted)
  /\ UNCHANGED <<open_volume, volume, fd_ctr, file, block_num, eot, written, dirVars, bsrVars, volume_config>>

\* the modes of DeviceMode, and one value outside the enumeration
DeviceModes == {"CREATE_READ_WRITE", "OPEN_READ_WRITE", "OPEN_READ_ONLY", "OPEN_WRITE_ONLY"}
OpenModes == DeviceModes \cup {"kInvalid"}

\* dev_options: not set, set but not parsable, set without a block size, set
\* with one
DevOptions == {"null", "bad", "good", "blocksize=8k"}

\* the cells a volume occupies on disk
Cells(vol) == Len(vol.blocks) + Len(vol.records) + Len(vol.data)

RECURSIVE SumOf(_, _)
SumOf(seq, field) == IF seq = <<>> THEN 0 ELSE Head(seq)[field] + SumOf(Tail(seq), field)

\* the cells of the records and data segments that no block descriptor reaches
Garbage(vol) ==
  (Len(vol.records) - SumOf(vol.blocks, "count"))
  + (Len(vol.data) - SumOf(SubSeq(vol.records, 1, SumOf(vol.blocks, "count")), "size"))

\* an I/O error may strike this write
MayFail(vol, fail) == fail = <<"none", 0>> \/ Garbage(vol) <= MaxGarbage

\* ASSERT(vol.is_ok()) aborts the daemon: the handler takes no step
AssertOk == volume.ok

d_open(mode, permissions, dev_options, is_ok) ==
  /\ IF open_volume THEN
       /\ last' = Ret("d_open", -1)
       /\ UNCHANGED <<open_volume, volume, fd_ctr, volume_config>>
     ELSE IF mode \notin DeviceModes \/ dev_options \in {"null", "bad"} \/ ~is_ok THEN
       /\ last' = Ret("d_open", -1)
       /\ UNCHANGED <<open_volume, volume, fd_ctr, volume_config>>
     ELSE
       /\ fd_ctr < MaxFd
       /\ open_volume' = TRUE
       /\ volume' = [volume EXCEPT !.ok = TRUE]
       /\ volume_config' = [name |-> VolumeName, permissions |-> permissions,
                            blocksize |-> options_blocksize(dev_options)]
       /\ fd_ctr' = fd_ctr + 1
       /\ last' = Ret("d_open", fd_ctr + 1)
  /\ UNCHANGED <<mounted, file, block_num, eot, written, dirVars, bsrVars>>

\* d_close without the check of the descriptor
d_close_any_fd(fd) ==
  /\ IF ~open_volume THEN
       /\ last' = RetFd("d_close", -1, fd)
       /\ UNCHANGED <<open_volume, volume_config>>
     ELSE
       /\ open_volume' = FALSE
       /\ volume_config' = NoConfig
       /\ last' = RetFd("d_close", 0, fd)
  /\ UNCHANGED <<mounted, volume, fd_ctr, file, block_num, eot, written, dirVars, bsrVars>>

d_close(fd) ==
  /\ IF fd # fd_ctr \/ ~open_volume THEN
       /\ last' = RetFd("d_close", -1, fd)
       /\ UNCHANGED <<open_volume, volume_config>>
     ELSE
       /\ open_volume' = FALSE
       /\ volume_config' = NoConfig
       /\ last' = RetFd("d_close", 0, fd)
  /\ UNCHANGED <<mounted, volume, fd_ctr, file, block_num, eot, written, dirVars, bsrVars>>

\* d_write_volume without the check that the cursor is at the end
d_write_volume_anywhere(vol, wr, current_block, data, size, fail) ==
  LET relabel == current_block = 0 /\ vol_size(vol) = 1
      vol1 == IF relabel THEN vol_reset(vol) ELSE vol
      wr1 == IF relabel THEN <<>> ELSE wr
      sc == scatter(vol1, data, size, fail)
  IN [ret |-> sc.ret, vol |-> sc.vol, reset |-> relabel,
      written |-> IF sc.ret = -1 THEN wr1 ELSE Append(wr1, Accepted(data))]

\* d_write_volume that lets the relabel write through without the reset
d_write_volume_keep(vol, wr, current_block, data, size, fail) ==
  LET relabel == current_block = 0 /\ vol_size(vol) = 1
  IN IF ~relabel /\ current_block # vol_size(vol)
     THEN [ret |-> -1, vol |-> vol, reset |-> FALSE, written |-> wr]
     ELSE LET sc == scatter(vol, data, size, fail)
          IN [ret |-> sc.ret, vol |-> sc.vol, reset |-> FALSE,
              written |-> IF sc.ret = -1 THEN wr ELSE Append(wr, Accepted(data))]

\* d_write once the descriptor and the open volume have been checked
d_write_volume(vol, wr, current_block, data, size, fail) ==
  LET relabel == current_block = 0 /\ vol_size(vol) = 1
      vol1 == IF relabel THEN vol_reset(vol) ELSE vol
      wr1 == IF relabel THEN <<>> ELSE wr
  IN IF current_block # vol_size(vol1)
     THEN [ret |-> -1, vol |-> vol1, reset |-> relabel, written |-> wr1]
     ELSE LET sc == scatter(vol1, data, size, fail)
          IN [ret |-> sc.ret, vol |-> sc.vol, reset |-> relabel,
              written |-> IF sc.ret = -1 THEN wr1 ELSE Append(wr1, Accepted(data))]

d_write(fd, data, fail) ==
  /\ IF fd # fd_ctr \/ ~open_volume THEN
       /\ last' = RetFd("d_write", -1, fd)
       /\ UNCHANGED <<volume, eot, written>>
     ELSE
       /\ AssertOk
       /\ MayFail(volume, fail)
       /\ LET w == d_write_volume(volume, written, block_number(file, block_num),
                                  data, Len(data), fail)
          IN /\ Cells(w.vol) <= MaxCells
             /\ volume' = w.vol
             /\ written' = w.written
             /\ last' = RetFdReset("d_write", w.ret, fd, w.reset)
       /\ eot' = TRUE
  /\ UNCHANGED <<mounted, open_volume, fd_ctr, file, block_num, dirVars, bsrVars, volume_config>>

d_read(fd, size, rfail) ==
  /\ IF fd # fd_ctr \/ ~open_volume THEN
       /\ last' = RetFd("d_read", -1, fd)
       /\ UNCHANGED eot
     ELSE
       /\ AssertOk
       /\ LET block == block_number(file, block_num)
          IN /\ last' = RetFd("d_read", gather(volume, block, size, rfail).ret, fd)
             /\ eot' = (block + 1 = vol_size(volume))
  /\ UNCHANGED <<mounted, open_volume, volume, fd_ctr, file, block_num, written, dirVars, bsrVars, volume_config>>

\* a bool function that returns -1 returns true
rewind ==
  /\ IF ~open_volume THEN
       /\ last' = Ret("rewind", TRUE)
       /\ UNCHANGED <<file, block_num, eot>>
     ELSE
       /\ AssertOk
       /\ block_num' = 0
       /\ file' = 0
       /\ eot' = (vol_size(volume) = 0)
       /\ last' = Ret("rewind", TRUE)
  /\ UNCHANGED <<mounted, open_volume, volume, fd_ctr, written, dirVars, bsrVars, volume_config>>

Reposition(rfile, rblock) ==
  /\ IF ~open_volume THEN
       /\ last' = Ret("Reposition", TRUE)
       /\ UNCHANGED <<file, block_num, eot>>
     ELSE
       /\ AssertOk
       /\ block_num' = rblock
       /\ file' = rfile
       /\ eot' = (block_number(rfile, rblock) = vol_size(volume))
       /\ last' = Ret("Reposition", TRUE)
  /\ UNCHANGED <<mounted, open_volume, volume, fd_ctr, written, dirVars, bsrVars, volume_config>>

\* eod that keeps the low word of the size only
eod_low_word ==
  /\ IF ~open_volume THEN
       /\ last' = Ret("eod", TRUE)
       /\ UNCHANGED <<file, block_num, eot>>
     ELSE
       /\ AssertOk
       /\ LET block == vol_size(volume)
          IN /\ block_num' = block % Word
             /\ file' = 0
       /\ eot' = TRUE
       /\ last' = Ret("eod", TRUE)
  /\ UNCHANGED <<mounted, open_volume, volume, fd_ctr, written, dirVars, bsrVars, volume_config>>

eod ==
  /\ IF ~open_volume THEN
       /\ last' = Ret("eod", TRUE)
       /\ UNCHANGED <<file, block_num, eot>>
     ELSE
       /\ AssertOk
       /\ LET block == vol_size(volume)
          IN /\ block_num' = block % Word
             /\ file' = (block \div Word) % Word
       /\ eot' = TRUE
       /\ last' = Ret("eod", TRUE)
  /\ UNCHANGED <<mounted, open_volume, volume, fd_ctr, written, dirVars, bsrVars, volume_config>>

\* d_flush: the result of volume::flush; a bool function that returns -1
\* returns true
d_flush(flushed) ==
  /\ IF ~open_volume THEN
       /\ last' = Ret("d_flush", TRUE)
       /\ UNCHANGED volume
     ELSE
       /\ AssertOk
       /\ volume' = IF flushed THEN volume ELSE vol_fail(volume)
       /\ last' = Ret("d_flush", flushed)
  /\ UNCHANGED <<mounted, open_volume, fd_ctr, file, block_num, eot, written, dirVars, bsrVars, volume_config>>

\* a bool function returns true for every value but 0
AsBool(r) == IF r # 0 THEN 1 ELSE 0

\* device_resource->dedup_block_size, as the device resource may set it
ResourceBlockSizes == {DefaultBlockSize, 2 * DefaultBlockSize}

\* what happens to the directory on the way: volume::reset failing,
\* delete_volume failing before a file is erased, the new volume not ok
TruncateOutcomes == {"ok", "reset fails", "delete fails", "create fails"}

d_truncate(secure_erase_cmdline, dedup_block_size, outcome) ==
  /\ IF ~open_volume THEN
       /\ last' = Ret("d_truncate", AsBool(-1))
       /\ UNCHANGED <<open_volume, volume, written, volume_config>>
     ELSE
       /\ AssertOk
       /\ IF ~secure_erase_cmdline THEN
            /\ outcome \in {"ok", "reset fails"}
            /\ volume' = IF outcome = "ok" THEN vol_reset(volume) ELSE vol_fail(volume)
            /\ written' = IF outcome = "ok" THEN <<>> ELSE written
            /\ last' = Ret("d_truncate", IF outcome = "ok" THEN 1 ELSE 0)
            /\ UNCHANGED <<open_volume, volume_config>>
          ELSE IF outcome = "delete fails" THEN
            /\ open_volume' = FALSE
            /\ volume_config' = NoConfig
            /\ last' = Ret("d_truncate", 0)
            /\ UNCHANGED <<volume, written>>
          ELSE IF outcome = "create fails" THEN
            /\ open_volume' = FALSE
            /\ volume_config' = NoConfig
            /\ volume' = vol_fail(EmptyVolume)
            /\ written' = <<>>
            /\ last' = Ret("d_truncate", 0)
          ELSE
            /\ outcome = "ok"
            /\ open_volume' = TRUE
            /\ volume_config' = [name |-> volume_config.name,
                                 permissions |-> volume_config.permissions,
                                 blocksize |-> dedup_block_size]
            /\ volume' = EmptyVolume
            /\ written' = <<>>
            /\ last' = Ret("d_truncate", 1)
  /\ UNCHANGED <<mounted, fd_ctr, file, block_num, eot, dirVars, bsrVars>>

\* the blocks the device is asked to write: no header, a block of no
\* records, the same with trailing bytes, a record whose payload is cut at
\* the block end, a block longer than the buffer
DevBuffers == {<<>>, <<1>>, <<1, 0>>, <<3, 2, 1>>, <<3, 1>>}

\* the descriptors the device is called with: the current one and a stale one
Fds == {fd_ctr, fd_ctr - 1}

\* the positions Reposition is asked for, as (file, block) pairs
Positions == {<<i \div Word, i % Word>> : i \in 0..(MaxCells + 1)}

Next ==
  \/ MountBackend
  \/ UnmountBackend
  \/ \E mode \in OpenModes, o \in DevOptions \ {"blocksize=8k"}, ok \in BOOLEAN :
       d_open(mode, "0640", o, ok)
  \/ \E fd \in Fds : d_close(fd)
  \/ \E fd \in Fds, data \in DevBuffers, fail \in FailPoints : d_write(fd, data, fail)
  \/ \E fd \in Fds, size \in 0..MaxLen, rfail \in ReadFails : d_read(fd, size, rfail)
  \/ rewind
  \/ \E pos \in Positions : Reposition(pos[1], pos[2])
  \/ eod

Spec == Init /\ [][Next]_vars

\* ------------------------------------------- truncation of the open volume
\* the device opened with every permission and block size, written to and
\* read without failures, positioned, flushed, and truncated in every way
TruncateNext ==
  \/ MountBackend
  \/ \E mode \in DeviceModes, perm \in Permissions, o \in DevOptions, ok \in BOOLEAN :
       d_open(mode, perm, o, ok)
  \/ \E fd \in Fds : d_close(fd)
  \/ \E fd \in Fds, data \in DevBuffers : d_write(fd, data, <<"none", 0>>)
  \/ \E fd \in Fds, size \in 0..MaxLen : d_read(fd, size, "none")
  \/ rewind
  \/ \E pos \in Positions : Reposition(pos[1], pos[2])
  \/ eod
  \/ \E flushed \in BOOLEAN : d_flush(flushed)
  \/ \E erase \in BOOLEAN, size \in ResourceBlockSizes, outcome \in TruncateOutcomes :
       d_truncate(erase, size, outcome)

TruncateSpec == Init /\ [][TruncateNext]_vars

\* ------------------------------------------------- the codec on one volume
CodecInit ==
  /\ mounted = TRUE
  /\ open_volume = TRUE
  /\ volume = EmptyVolume
  /\ fd_ctr = 1
  /\ file = 0
  /\ block_num = 0
  /\ eot = FALSE
  /\ last = Ret("init", 0)
  /\ written = <<>>
  /\ volume_config = [name |-> VolumeName, permissions |-> "0640",
                      blocksize |-> DefaultBlockSize]
  /\ NoJob

Scatter(data, fail) ==
  /\ MayFail(volume, fail)
  /\ LET sc == scatter(volume, data, Len(data), fail)
     IN /\ Cells(sc.vol) <= MaxCells
        /\ volume' = sc.vol
        /\ written' = IF sc.ret = -1 THEN written ELSE Append(written, Accepted(data))
        /\ last' = Ret("scatter", sc.ret)
  /\ UNCHANGED <<mounted, open_volume, fd_ctr, file, block_num, eot, dirVars, bsrVars, volume_config>>

\* volume::reset on the open volume
Reset ==
  /\ volume.ok
  /\ volume' = vol_reset(volume)
  /\ written' = <<>>
  /\ last' = Ret("reset", TRUE)
  /\ UNCHANGED <<mounted, open_volume, fd_ctr, file, block_num, eot, dirVars, bsrVars, volume_config>>

\* the volume object is destroyed and constructed again over the directory
Reopen ==
  /\ volume' = [volume EXCEPT !.ok = TRUE]
  /\ last' = Ret("reopen", TRUE)
  /\ UNCHANGED <<mounted, open_volume, fd_ctr, file, block_num, eot, written, dirVars, bsrVars, volume_config>>

CodecNext ==
  \/ \E data \in Buffers, fail \in FailPoints : Scatter(data, fail)
  \/ Reset
  \/ Reopen

CodecSpec == CodecInit /\ [][CodecNext]_vars

\* =================================================== the consolidator (dird)
\* The virtual backup job of the director.  The catalog, the storage daemon
\* and the bootstrap writer are collaborators whose code lives outside the
\* two files modelled here; their effect is modelled from the description of
\* the consolidator, their failures are inputs of the run.

\* the longest consolidation list a caller supplies
MaxJobs == 3

\* job ids are decimal strings in the list and in the rows the catalog
\* returns, and numbers in the job records
RECURSIVE str_to_int64(_)
str_to_int64(s) ==
  IF s = <<>> THEN 0 ELSE 10 * str_to_int64(SubSeq(s, 1, Len(s) - 1)) + s[Len(s)]

RECURSIVE edit_uint64(_)
edit_uint64(n) ==
  IF n < 10 THEN <<n>> ELSE Append(edit_uint64(n \div 10), n % 10)

\* operator< of std::string
RECURSIVE StrLess(_, _)
StrLess(a, b) ==
  IF b = <<>> THEN FALSE
  ELSE IF a = <<>> THEN TRUE
  ELSE IF a[1] # b[1] THEN a[1] < b[1]
  ELSE StrLess(Tail(a), Tail(b))

\* std::sort of a vector of strings
RECURSIVE SortInsert(_, _)
SortInsert(sorted, x) ==
  IF sorted = <<>> THEN <<x>>
  ELSE IF StrLess(x, Head(sorted)) THEN <<x>> \o sorted
  ELSE <<Head(sorted)>> \o SortInsert(Tail(sorted), x)

RECURSIVE std_sort(_)
std_sort(v) == IF v = <<>> THEN <<>> ELSE SortInsert(std_sort(Tail(v)), Head(v))

\* std::set_difference of two sorted ranges
RECURSIVE set_difference(_, _)
set_difference(a, b) ==
  IF a = <<>> THEN <<>>
  ELSE IF b = <<>> THEN a
  ELSE IF StrLess(Head(a), Head(b)) THEN <<Head(a)>> \o set_difference(Tail(a), b)
  ELSE IF StrLess(Head(b), Head(a)) THEN set_difference(a, Tail(b))
  ELSE set_difference(Tail(a), Tail(b))

\* the jobs a consolidation may name, and the job being run
SourceJobs == {<<9>>, <<1, 0>>, <<1, 1>>}
ThisJob == <<1, 2>>
JobNumbers == {str_to_int64(s) : s \in SourceJobs \cup {ThisJob}}

\* the Job table.  A job's level and times are fixed by its id, so that a
\* level or a time tells which job it was taken from.
NoRow == [present |-> FALSE]
LevelOf(n) == IF n = 9 THEN "Full" ELSE IF n = 10 THEN "Differential" ELSE "Incremental"
SourceRow(n, purged) ==
  [present |-> TRUE, JobLevel |-> LevelOf(n), StartTime |-> 2 * n, EndTime |-> 2 * n + 1,
   JobTDate |-> 2 * n, PurgedFiles |-> purged, JobStatus |-> "JS_Terminated"]
\* the row of the job being run, as the init phase leaves it
InitTime == 2 * str_to_int64(ThisJob)
ThisRow ==
  [present |-> TRUE, JobLevel |-> "VirtualFull", StartTime |-> InitTime, EndTime |-> 0,
   JobTDate |-> InitTime, PurgedFiles |-> 0, JobStatus |-> "JS_Running"]
Catalogs ==
  {c \in [JobNumbers -> {NoRow, ThisRow} \cup
                        {SourceRow(str_to_int64(s), p) : s \in SourceJobs, p \in {0, 1}}] :
     /\ c[str_to_int64(ThisJob)] = ThisRow
     /\ \A s \in SourceJobs :
          c[str_to_int64(s)] \in {NoRow, SourceRow(str_to_int64(s), 0), SourceRow(str_to_int64(s), 1)}}

\* the job record the director keeps of a catalog row
JobDbRecord(n) ==
  [JobId |-> n, JobLevel |-> "", StartTime |-> 0, EndTime |-> 0, JobTDate |-> 0,
   cStartTime |-> 0, cEndTime |-> 0]

\* BareosDb::GetJobRecord: the record is filled from the row of its JobId
GetJobRecord(cat, jr, works) ==
  IF works /\ jr.JobId \in DOMAIN cat /\ cat[jr.JobId].present
  THEN [ok |-> TRUE,
        jr |-> [jr EXCEPT !.JobLevel = cat[jr.JobId].JobLevel,
                          !.StartTime = cat[jr.JobId].StartTime,
                          !.EndTime = cat[jr.JobId].EndTime,
                          !.JobTDate = cat[jr.JobId].JobTDate,
                          !.cStartTime = cat[jr.JobId].StartTime,
                          !.cEndTime = cat[jr.JobId].EndTime]]
  ELSE [ok |-> FALSE, jr |-> jr]

\* BareosDb::UpdateJobStartRecord: the start time of the record reaches the row
UpdateJobStartRecord(cat, jr, works) ==
  IF works THEN [cat EXCEPT ![jr.JobId].StartTime = jr.StartTime,
                            ![jr.JobId].JobTDate = jr.JobTDate,
                            ![jr.JobId].JobStatus = "JS_Running"]
  ELSE cat

\* ---- what a run leaves behind: messages and calls, in the order made
Msg(type, text, arg) == [kind |-> "Jmsg", type |-> type, text |-> text, arg |-> arg]
Did(name, arg, result) == [kind |-> "call", type |-> result, text |-> name, arg |-> arg]

\* a run is a chain of steps over a context; a step after a return does nothing
Jmsg(c, type, text, arg) == [c EXCEPT !.trace = Append(@, Msg(type, text, arg))]
Calls(c, name, arg) == [c EXCEPT !.trace = Append(@, Did(name, arg, "ok"))]
Called(c, name, arg, works) ==
  [c EXCEPT !.trace = Append(@, Did(name, arg, IF works THEN "ok" ELSE "failed"))]
Return(c, r) == [c EXCEPT !.done = TRUE, !.ret = r]
setJobStatus(c, status) == [c EXCEPT !.JobStatus = status]

\* ---- JobConsistencyChecker
EmptyChecker == [JobList |-> <<>>, JobsWithPurgedFiles |-> <<>>]

\* operator(): one row of the consistency query
CheckerRow(cc, row) ==
  [JobList |-> Append(cc.JobList, row.JobId),
   JobsWithPurgedFiles |->
     IF row.PurgedFiles[1] # 0 THEN Append(cc.JobsWithPurgedFiles, row.JobId)
     ELSE cc.JobsWithPurgedFiles]

CheckNumJobs(cc, t_NumJobs) == Len(cc.JobList) = t_NumJobs
\* the difference taken the other way round: the rows the list does not name
JobListDiff_rows_minus_list(cc, FullJobList) ==
  set_difference(std_sort(cc.JobList), std_sort(FullJobList))

JobListDiff(cc, FullJobList) ==
  set_difference(std_sort(FullJobList), std_sort(cc.JobList))
CheckPurgedFiles(cc) == cc.JobsWithPurgedFiles = <<>>

\* SELECT JobId, ..., PurgedFiles FROM Job WHERE JobId IN (jobids): one row
\* per job of the table that the list names, in the order of the table
RECURSIVE SelectJobs(_, _, _)
SelectJobs(cat, ids, n) ==
  IF n > str_to_int64(ThisJob) THEN <<>>
  ELSE (IF n \in DOMAIN cat /\ cat[n].present /\ n \in ids
        THEN <<[JobId |-> edit_uint64(n), PurgedFiles |-> edit_uint64(cat[n].PurgedFiles)]>>
        ELSE <<>>) \o SelectJobs(cat, ids, n + 1)

ConsistencyQuery(cat, jobid_list, works) ==
  IF works
  THEN SelectJobs(cat, {str_to_int64(jobid_list[i]) : i \in 1..Len(jobid_list)}, 0)
  ELSE <<>>

RECURSIVE ObjectHandler(_, _)
ObjectHandler(cc, rows) ==
  IF rows = <<>> THEN cc ELSE ObjectHandler(CheckerRow(cc, Head(rows)), Tail(rows))

\* BareosDb::AccurateGetJobids: the chain the catalog holds, oldest job first
RECURSIVE AccurateGetJobids(_, _)
AccurateGetJobids(cat, n) ==
  IF n >= str_to_int64(ThisJob) THEN <<>>
  ELSE (IF n \in DOMAIN cat /\ cat[n].present THEN <<edit_uint64(n)>> ELSE <<>>)
       \o AccurateGetJobids(cat, n + 1)

GetVfJobids(c) ==
  IF ~c.env.vf_null THEN c.env.vf_jobids ELSE AccurateGetJobids(c.catalog, 0)

\* ---- the bootstrap
\* AddFindex: the file index joins those of its job; index 0 marks a deleted
\* file and is kept apart from the bootstrap
AddFindex(b, JobId, findex) == IF findex = 0 THEN b ELSE b \cup {<<JobId, findex>>}

InsertBootstrapHandler(b, row) == AddFindex(b, str_to_int64(row.JobId), row.FileIndex)

RECURSIVE GetFileList(_, _)
GetFileList(b, rows) ==
  IF rows = <<>> THEN b ELSE GetFileList(InsertBootstrapHandler(b, Head(rows)), Tail(rows))

\* WriteBsrFile: the number of files the bootstrap names
WriteBsrFile(b) == Cardinality(b)

\* the File rows of the listed jobs, by ascending JobId: every job that has
\* files saved the same one file
RECURSIVE FileRows(_, _, _)
FileRows(cat, ids, n) ==
  IF n > str_to_int64(ThisJob) THEN <<>>
  ELSE (IF n \in DOMAIN cat /\ cat[n].present /\ n \in ids
        THEN <<[Path |-> "/", Filename |-> "a", FileIndex |-> 1, JobId |-> edit_uint64(n)]>>
        ELSE <<>>) \o FileRows(cat, ids, n + 1)

\* ---- DoNativeVbackup, step by step
StorageLists(c) ==
  IF c.done THEN c
  ELSE IF c.env.storage = "no_read"
  THEN Return(Jmsg(c, "M_FATAL", "No storage for reading given", <<>>), FALSE)
  ELSE IF c.env.storage = "no_write"
  THEN Return(Jmsg(c, "M_FATAL", "No storage for writing given", <<>>), FALSE)
  ELSE LET c1 == Jmsg(c, "M_INFO", "Start Virtual Backup JobId", ThisJob)
       IN IF ~c.env.accurate
          THEN Jmsg(c1, "M_WARNING", "This Job is not an Accurate backup", <<>>)
          ELSE c1

JobidList(c) ==
  IF c.done THEN c
  ELSE LET jobid_list == GetVfJobids(c)
       IN IF jobid_list = <<>>
          THEN Return(Jmsg(c, "M_FATAL", "No previous Jobs found", <<>>), FALSE)
          ELSE [c EXCEPT !.jobid_list = jobid_list]

RECURSIVE JmsgEach(_, _, _, _)
JmsgEach(c, type, text, ids) ==
  IF ids = <<>> THEN c ELSE JmsgEach(Jmsg(c, type, text, Head(ids)), type, text, Tail(ids))

\* the offending jobs reported, and the run going on
ConsistencyCheck_reports_only(c) ==
  IF c.done THEN c
  ELSE LET rows == ConsistencyQuery(c.catalog, c.jobid_list, c.env.fail # "query")
           cc == ObjectHandler(EmptyChecker, rows)
           c1 == Called([c EXCEPT !.cc_rows = rows], "SqlQuery consistency", <<>>,
                        c.env.fail # "query")
       IN IF ~CheckNumJobs(cc, Len(c.jobid_list))
          THEN Jmsg(JmsgEach(c1, "M_ERROR", "is not present in the catalog",
                             JobListDiff(cc, c.jobid_list)),
                    "M_FATAL", "Jobs missing from catalog", <<>>)
          ELSE IF ~CheckPurgedFiles(cc)
          THEN Jmsg(JmsgEach(c1, "M_ERROR", "Files have been purged from the catalog",
                             cc.JobsWithPurgedFiles),
                    "M_FATAL", "At least one job's files were pruned", <<>>)
          ELSE c1

ConsistencyCheck(c) ==
  IF c.done THEN c
  ELSE LET rows == ConsistencyQuery(c.catalog, c.jobid_list, c.env.fail # "query")
           cc == ObjectHandler(EmptyChecker, rows)
           c1 == Called([c EXCEPT !.cc_rows = rows], "SqlQuery consistency", <<>>,
                        c.env.fail # "query")
       IN IF ~CheckNumJobs(cc, Len(c.jobid_list))
          THEN Return(Jmsg(JmsgEach(c1, "M_ERROR", "is not present in the catalog",
                                    JobListDiff(cc, c.jobid_list)),
                           "M_FATAL", "Jobs missing from catalog", <<>>), FALSE)
          ELSE IF ~CheckPurgedFiles(cc)
          THEN Return(Jmsg(JmsgEach(c1, "M_ERROR", "Files have been purged from the catalog",
                                    cc.JobsWithPurgedFiles),
                           "M_FATAL", "At least one job's files were pruned", <<>>), FALSE)
          ELSE c1

\* the level taken from the back of the list instead of its front
FirstJob_from_back(c) ==
  IF c.done THEN c
  ELSE LET tmp_jr == JobDbRecord(str_to_int64(c.jobid_list[Len(c.jobid_list)]))
           got == GetJobRecord(c.catalog, tmp_jr, c.env.fail # "first job record")
           c1 == Called(c, "GetJobRecord", Head(c.jobid_list), got.ok)
       IN IF ~got.ok
          THEN Return(Jmsg(c1, "M_FATAL", "Error getting Job record for first Job", <<>>), FALSE)
          ELSE [c1 EXCEPT !.JobLevel_of_first_job = got.jr.JobLevel]

FirstJob(c) ==
  IF c.done THEN c
  ELSE LET tmp_jr == JobDbRecord(str_to_int64(Head(c.jobid_list)))
           got == GetJobRecord(c.catalog, tmp_jr, c.env.fail # "first job record")
           c1 == Called(c, "GetJobRecord", Head(c.jobid_list), got.ok)
       IN IF ~got.ok
          THEN Return(Jmsg(c1, "M_FATAL", "Error getting Job record for first Job", <<>>), FALSE)
          ELSE [c1 EXCEPT !.JobLevel_of_first_job = got.jr.JobLevel]

PreviousJob(c) ==
  IF c.done THEN c
  ELSE LET previous_jr == JobDbRecord(str_to_int64(c.jobid_list[Len(c.jobid_list)]))
           got == GetJobRecord(c.catalog, previous_jr, c.env.fail # "previous job record")
           c1 == Called([c EXCEPT !.previous_jr = got.jr], "GetJobRecord",
                        c.jobid_list[Len(c.jobid_list)], got.ok)
       IN IF ~got.ok
          THEN Return(Jmsg(c1, "M_FATAL", "Error getting Job record for previous Job", <<>>), FALSE)
          ELSE c1

CreateBootstrapFile(c) ==
  IF c.env.fail = "batch connection"
  THEN [ok |-> FALSE,
        c |-> Jmsg(Called(c, "OpenBatchConnection", <<>>, FALSE),
                   "M_FATAL", "Can't get batch sql connexion", <<>>)]
  ELSE LET ids == {str_to_int64(c.jobid_list[i]) : i \in 1..Len(c.jobid_list)}
           rows == IF c.env.fail = "file list" \/ ~c.env.files THEN <<>>
                   ELSE FileRows(c.catalog, ids, 0)
           b == GetFileList({}, rows)
           c1 == IF c.env.fail = "file list"
                 THEN Jmsg(Called(c, "GetFileList", c.jobid_list, FALSE),
                           "M_ERROR", "GetFileList", <<>>)
                 ELSE Calls(c, "GetFileList", c.jobid_list)
           c2 == Calls([c1 EXCEPT !.rows = rows, !.bsr = b, !.ExpectedFiles = WriteBsrFile(b)],
                       "WriteBsrFile", <<>>)
       IN [ok |-> c2.ExpectedFiles # 0, c |-> c2]

Bootstrap(c) ==
  IF c.done THEN c
  ELSE LET r == CreateBootstrapFile(c)
       IN IF ~r.ok
          THEN Return(Jmsg(r.c, "M_FATAL", "Could not create bootstrap file", <<>>), FALSE)
          ELSE Jmsg(r.c, "M_INFO", "Consolidating JobIds", c.jobid_list)

StorageDaemon(c) ==
  IF c.done THEN c
  ELSE LET c1 == Called(setJobStatus(c, "JS_WaitSD"), "ConnectToStorageDaemon", <<>>,
                        c.env.fail # "connect")
       IN IF c.env.fail = "connect" THEN Return(c1, FALSE)
          ELSE LET c2 == Called(c1, "StartStorageDaemonJob", <<"send_bsr">>,
                                c.env.fail # "start job")
               IN IF c.env.fail = "start job" THEN Return(c2, FALSE) ELSE c2

StartRecord(c) ==
  IF c.done THEN c
  ELSE LET c1 == setJobStatus([c EXCEPT !.start_time = c.env.now,
                                        !.jr.StartTime = c.env.now,
                                        !.jr.JobTDate = c.env.now], "JS_Running")
           c2 == Called([c1 EXCEPT !.catalog = UpdateJobStartRecord(c1.catalog, c1.jr,
                                                 c.env.fail # "start record")],
                        "UpdateJobStartRecord", <<>>, c.env.fail # "start record")
       IN IF c.env.fail = "start record"
          THEN Return(Jmsg(c2, "M_FATAL", "UpdateJobStartRecord", <<>>), FALSE)
          ELSE c2

\* the message thread started before "run" is sent to the storage daemon
RunWorker_thread_first(c) ==
  IF c.done THEN c
  ELSE LET c1 == Called(c, "StartStorageDaemonMessageThread", <<>>,
                        c.env.fail # "message thread")
       IN IF c.env.fail = "message thread" THEN Return(c1, FALSE)
          ELSE LET c2 == Called(c1, "fsend run", <<>>, c.env.fail # "run")
               IN IF c.env.fail = "run" THEN Return(c2, FALSE)
                  ELSE LET c3 == [setJobStatus(c2, "JS_Running") EXCEPT !.trace =
                                    Append(@, Did("WaitForStorageDaemonTermination", <<>>,
                                                  c.env.SDJobStatus))]
                           c4 == Calls(setJobStatus(c3, c.env.SDJobStatus),
                                       "WriteBatchFileRecords", <<>>)
                       IN IF c4.JobStatus # "JS_Terminated" THEN Return(c4, FALSE) ELSE c4

RunWorker(c) ==
  IF c.done THEN c
  ELSE LET c1 == Called(c, "fsend run", <<>>, c.env.fail # "run")
       IN IF c.env.fail = "run" THEN Return(c1, FALSE)
          ELSE LET c2 == Called(c1, "StartStorageDaemonMessageThread", <<>>,
                                c.env.fail # "message thread")
               IN IF c.env.fail = "message thread" THEN Return(c2, FALSE)
                  ELSE LET c3 == [setJobStatus(c2, "JS_Running") EXCEPT !.trace =
                                    Append(@, Did("WaitForStorageDaemonTermination", <<>>,
                                                  c.env.SDJobStatus))]
                           c4 == Calls(setJobStatus(c3, c.env.SDJobStatus),
                                       "WriteBatchFileRecords", <<>>)
                       IN IF c4.JobStatus # "JS_Terminated" THEN Return(c4, FALSE) ELSE c4

\* UpdateJobEnd: the termination code becomes the job status and the end
\* record (status, level, end time) is written to the row of the job
UpdateJobEnd(c, TermCode) ==
  LET c1 == setJobStatus(c, TermCode)
      c2 == [c1 EXCEPT !.jr.EndTime = c.env.now]
  IN IF c.env.fail = "job end record"
     THEN Jmsg(Called(c2, "UpdateJobEndRecord", <<>>, FALSE), "M_WARNING",
               "Error updating job record", <<>>)
     ELSE Calls([c2 EXCEPT !.catalog[c.jr.JobId].JobStatus = c2.JobStatus,
                           !.catalog[c.jr.JobId].JobLevel = c2.jr.JobLevel,
                           !.catalog[c.jr.JobId].EndTime = c2.jr.EndTime],
                "UpdateJobEndRecord", <<>>)

\* UPDATE Job SET StartTime=..., EndTime=..., JobTDate=... WHERE JobId=...
UpdateTimes(c) ==
  LET JobId == str_to_int64(edit_uint64(c.jr.JobId))
      c1 == Called(c, "SqlQuery update times", <<>>, c.env.fail # "update times")
  IN IF c.env.fail = "update times" THEN c1
     ELSE [c1 EXCEPT !.catalog[JobId].StartTime = c.previous_jr.cStartTime,
                     !.catalog[JobId].EndTime = c.previous_jr.cEndTime,
                     !.catalog[JobId].JobTDate =
                        str_to_int64(edit_uint64(c.previous_jr.JobTDate))]

JobReportRecord(c) ==
  LET got == GetJobRecord(c.catalog, c.jr, c.env.fail # "job report record")
      c1 == Called(c, "GetJobRecord", edit_uint64(c.jr.JobId), got.ok)
  IN IF ~got.ok
     THEN setJobStatus(Jmsg(c1, "M_WARNING", "Error getting Job record for Job report", <<>>),
                       "JS_ErrorTerminated")
     ELSE [c1 EXCEPT !.jr = got.jr]

\* a replication whose failure ends the job in error
ReplicateDeletedFiles_fatal(c) ==
  IF ~c.env.vf_null /\ c.env.vf_jobids # <<>>
  THEN LET c1 == Called(Jmsg(c, "M_INFO", "Replicating deleted files", c.env.vf_jobids),
                        "SqlQuery replicate deleted files", <<>>, c.env.fail # "replicate")
       IN IF c.env.fail = "replicate"
          THEN setJobStatus(Jmsg(c1, "M_WARNING", "Error replicating deleted files", <<>>),
                            "JS_ErrorTerminated")
          ELSE c1
  ELSE c

ReplicateDeletedFiles(c) ==
  IF ~c.env.vf_null /\ c.env.vf_jobids # <<>>
  THEN LET c1 == Called(Jmsg(c, "M_INFO", "Replicating deleted files", c.env.vf_jobids),
                        "SqlQuery replicate deleted files", <<>>, c.env.fail # "replicate")
       IN IF c.env.fail = "replicate"
          THEN Jmsg(c1, "M_WARNING", "Error replicating deleted files", <<>>)
          ELSE c1
  ELSE c

ClientRecord(c) ==
  LET c1 == IF c.env.fail = "client record"
            THEN Jmsg(Called(c, "GetClientRecord", <<>>, FALSE),
                      "M_WARNING", "Error getting Client record for Job report", <<>>)
            ELSE Calls(c, "GetClientRecord", <<>>)
  IN Calls(c1, "UpdateBootstrapFile", <<>>)

BackupSummary(c) ==
  IF c.JobStatus = "JS_Terminated" THEN Jmsg(c, "M_INFO", "Backup OK", <<>>)
  ELSE IF c.JobStatus = "JS_Warnings" THEN Jmsg(c, "M_INFO", "Backup OK -- with warnings", <<>>)
  ELSE IF c.JobStatus \in {"JS_FatalError", "JS_ErrorTerminated"}
  THEN Jmsg(Calls(c, "signal BNET_TERMINATE", <<>>), "M_ERROR", "*** Backup Error ***", <<>>)
  ELSE IF c.JobStatus = "JS_Canceled"
  THEN Jmsg(Calls(c, "signal BNET_TERMINATE", <<>>), "M_INFO", "Backup Canceled", <<>>)
  ELSE Jmsg(c, "M_INFO", "Inappropriate term code", <<>>)

\* a cleanup phase that writes the job end record of a job that ended well only
NativeVbackupCleanup_of_good_end(c, TermCode, JobLevel) ==
  LET c1 == IF c.JobStatus \in {"JS_Terminated", "JS_Warnings"}
            THEN Jmsg([c EXCEPT !.jr.JobLevel = JobLevel], "M_INFO",
                      "Joblevel was set to joblevel of first consolidated job", <<>>)
            ELSE c
      code == IF c1.JobStatus = "JS_Terminated" /\ c.env.errors
              THEN "JS_Warnings" ELSE TermCode
      c2 == Calls(c1, "NativeVbackupCleanup", <<>>)
      c3 == IF c.JobStatus \in {"JS_Terminated", "JS_Warnings"}
            THEN UpdateJobEnd(c2, code) ELSE setJobStatus(c2, code)
  IN BackupSummary(ClientRecord(ReplicateDeletedFiles(JobReportRecord(UpdateTimes(c3)))))

NativeVbackupCleanup(c, TermCode, JobLevel) ==
  LET c1 == IF c.JobStatus \in {"JS_Terminated", "JS_Warnings"}
            THEN Jmsg([c EXCEPT !.jr.JobLevel = JobLevel], "M_INFO",
                      "Joblevel was set to joblevel of first consolidated job", <<>>)
            ELSE c
      code == IF c1.JobStatus = "JS_Terminated" /\ c.env.errors
              THEN "JS_Warnings" ELSE TermCode
  IN BackupSummary(ClientRecord(ReplicateDeletedFiles(JobReportRecord(
       UpdateTimes(UpdateJobEnd(Calls(c1, "NativeVbackupCleanup", <<>>), code))))))

\* PurgeJobsFromCatalog: the rows of the listed jobs leave the Job table
PurgeJobsFromCatalog(cat, jobid_list) ==
  [n \in DOMAIN cat |->
     IF \E i \in 1..Len(jobid_list) : str_to_int64(jobid_list[i]) = n THEN NoRow ELSE cat[n]]

\* the purge made before the cleanup phase instead of after it
Finish_purge_first(c) ==
  IF c.done THEN c
  ELSE LET c1 == IF c.env.AlwaysIncremental /\ c.env.AlwaysIncrementalJobRetention
                 THEN Jmsg(Calls([c EXCEPT !.catalog = PurgeJobsFromCatalog(@, c.jobid_list)],
                                 "PurgeJobsFromCatalog", c.jobid_list),
                           "M_INFO", "purged JobIds", c.jobid_list)
                 ELSE c
           c2 == NativeVbackupCleanup(c1, c.JobStatus, c.JobLevel_of_first_job)
       IN Return(c2, TRUE)

Finish(c) ==
  IF c.done THEN c
  ELSE LET c1 == NativeVbackupCleanup(c, c.JobStatus, c.JobLevel_of_first_job)
           c2 == IF c.env.AlwaysIncremental /\ c.env.AlwaysIncrementalJobRetention
                 THEN Jmsg(Calls([c1 EXCEPT !.catalog = PurgeJobsFromCatalog(@, c.jobid_list)],
                                 "PurgeJobsFromCatalog", c.jobid_list),
                           "M_INFO", "purged JobIds", c.jobid_list)
                 ELSE c1
       IN Return(c2, TRUE)

\* the job on entry to the run phase
Context(env) ==
  [done |-> FALSE, ret |-> FALSE, env |-> env, trace |-> trace, catalog |-> catalog,
   JobStatus |-> jcr.JobStatus, jr |-> jcr.jr, previous_jr |-> jcr.previous_jr,
   start_time |-> jcr.start_time, ExpectedFiles |-> jcr.ExpectedFiles,
   jobid_list |-> <<>>, cc_rows |-> <<>>, JobLevel_of_first_job |-> "",
   rows |-> <<>>, bsr |-> {}]

RunOf(env) ==
  Finish(RunWorker(StartRecord(StorageDaemon(Bootstrap(PreviousJob(FirstJob(
    ConsistencyCheck(JobidList(StorageLists(Context(env)))))))))))

\* the collaborator calls of the cleanup phase
CleanupFailures ==
  {"job end record", "update times", "job report record", "replicate", "client record"}

\* what the cleanup phase meets of the environment of a run
Ahead(env) ==
  [fail |-> IF env.fail \in CleanupFailures THEN env.fail ELSE "none",
   errors |-> env.errors, now |-> env.now, vf_null |-> env.vf_null,
   vf_jobids |-> env.vf_jobids]

DoNativeVbackup(env) ==
  /\ pc = "run"
  /\ \E c \in {RunOf(env)} :
     /\ catalog' = c.catalog
     /\ jcr' = [JobStatus |-> c.JobStatus, jr |-> c.jr, previous_jr |-> c.previous_jr,
                start_time |-> c.start_time, ExpectedFiles |-> c.ExpectedFiles,
                jobid_list |-> c.jobid_list, cc_rows |-> c.cc_rows, ret |-> c.ret,
                job |-> [AlwaysIncremental |-> env.AlwaysIncremental,
                         AlwaysIncrementalJobRetention |->
                           env.AlwaysIncrementalJobRetention],
                env |-> Ahead(env)]
     /\ trace' = c.trace
     /\ delivered' = c.rows
     /\ bsr' = c.bsr
  /\ pc' = "done"
  /\ UNCHANGED devVars

\* the job as the run phase left it, in the hands of its caller
Returned ==
  [done |-> FALSE, ret |-> jcr.ret, env |-> jcr.env, trace |-> trace, catalog |-> catalog,
   JobStatus |-> jcr.JobStatus, jr |-> jcr.jr, previous_jr |-> jcr.previous_jr,
   start_time |-> jcr.start_time, ExpectedFiles |-> jcr.ExpectedFiles,
   jobid_list |-> jcr.jobid_list, cc_rows |-> jcr.cc_rows, JobLevel_of_first_job |-> "",
   rows |-> delivered, bsr |-> bsr]

\* the level the caller hands to the cleanup phase
CallerLevels == {"Full", "VirtualFull"}

\* the caller of the run phase: a run that returned false still goes through
\* the cleanup phase, with the status the run left in the job; a run that
\* returned true has been through it already
CleanupAfterRun ==
  /\ pc = "done"
  /\ \E JobLevel \in CallerLevels :
       \E c \in {IF jcr.ret THEN Returned
                 ELSE NativeVbackupCleanup(Returned, jcr.JobStatus, JobLevel)} :
         /\ catalog' = c.catalog
         /\ jcr' = [jcr EXCEPT !.JobStatus = c.JobStatus, !.jr = c.jr]
         /\ trace' = c.trace
  /\ pc' = "end"
  /\ UNCHANGED <<devVars, bsrVars>>

\* ---- the runs explored
JobidLists == UNION {[1..k -> SourceJobs] : k \in 0..MaxJobs}

\* the collaborator call that fails in a run, if any
Failures ==
  {"none", "query", "first job record", "previous job record", "batch connection",
   "file list", "connect", "start job", "start record", "run", "message thread",
   "job end record", "update times", "job report record", "replicate", "client record"}

\* what the storage daemon reports at the end of its job
SDStatuses == {"JS_Terminated", "JS_Warnings", "JS_ErrorTerminated", "JS_Canceled"}

\* the list the caller supplies: none (the catalog is asked), or a list
VfJobids == {[null |-> TRUE, list |-> <<>>]} \cup {[null |-> FALSE, list |-> l] : l \in JobidLists}

Env(vf, storage, accurate, fail, SDJobStatus, errors, ai, retention, files) ==
  [vf_null |-> vf.null, vf_jobids |-> vf.list, storage |-> storage, accurate |-> accurate,
   fail |-> fail, SDJobStatus |-> SDJobStatus, errors |-> errors, AlwaysIncremental |-> ai,
   AlwaysIncrementalJobRetention |-> retention, files |-> files, now |-> InitTime + 1]

\* a run has one thing going wrong at most: a storage list not configured,
\* a collaborator call failing, no file to consolidate, or a worker that
\* does not end well; the job options vary in the runs where nothing does
Envs ==
  {Env(vf, s, TRUE, "none", "JS_Terminated", FALSE, TRUE, TRUE, TRUE) :
     vf \in VfJobids, s \in {"no_read", "no_write"}}
  \cup {Env(vf, "ok", TRUE, f, "JS_Terminated", FALSE, TRUE, TRUE, TRUE) :
          vf \in VfJobids, f \in Failures}
  \cup {Env(vf, "ok", TRUE, "none", "JS_Terminated", FALSE, TRUE, TRUE, FALSE) :
          vf \in VfJobids}
  \cup {Env(vf, "ok", TRUE, "none", s, e, TRUE, TRUE, TRUE) :
          vf \in VfJobids, s \in SDStatuses, e \in BOOLEAN}
  \cup {Env(vf, "ok", a, "none", "JS_Terminated", FALSE, ai, r, TRUE) :
          vf \in VfJobids, a \in BOOLEAN, ai \in BOOLEAN, r \in BOOLEAN}

DevIdle ==
  /\ mounted = FALSE
  /\ open_volume = FALSE
  /\ volume = EmptyVolume
  /\ fd_ctr = 0
  /\ file = 0
  /\ block_num = 0
  /\ eot = FALSE
  /\ last = Ret("init", 0)
  /\ written = <<>>
  /\ volume_config = NoConfig

\* the job after its init phase: the start time is stamped and in the catalog
VbInit ==
  /\ DevIdle
  /\ catalog \in Catalogs
  /\ jcr = [JobStatus |-> "JS_Running",
            jr |-> [JobDbRecord(str_to_int64(ThisJob)) EXCEPT
                      !.JobLevel = "VirtualFull", !.StartTime = InitTime,
                      !.JobTDate = InitTime],
            previous_jr |-> JobDbRecord(0), start_time |-> InitTime, ExpectedFiles |-> 0,
            jobid_list |-> <<>>, cc_rows |-> <<>>, ret |-> FALSE]
  /\ trace = <<>>
  /\ pc = "run"
  /\ delivered = <<>>
  /\ bsr = {}

VbNext ==
  \/ \E env \in Envs : DoNativeVbackup(env)
  \/ CleanupAfterRun

VbSpec == VbInit /\ [][VbNext]_vars

\* ---- the init phase: DoNativeVbackupInit
\* a pool pointer that is not set
NoPool == ""

\* the pool resources of the configuration
PoolNames == {"Incremental", "Consolidated", "Offsite", "Scratch"}

\* the pools a job is configured on: its own and the one of its level
JobPools == {"Incremental", "Consolidated"}

\* the catalog id of the row of a pool
PoolId(name) ==
  CASE name = "Incremental" -> 1
    [] name = "Consolidated" -> 2
    [] name = "Offsite" -> 3
    [] name = "Scratch" -> 4

\* the call of the init phase that fails, if any
InitFailures ==
  {"none", "fileset", "duplicate", "pool record", "start record", "next pool record",
   "wstorage"}

\* GetOrCreatePoolRecord: the id of the row of the pool, made if not there; 0
\* when the catalog does not answer
GetOrCreatePoolRecord(c, pool_name, works) ==
  IF works
  THEN [Called(c, "GetOrCreatePoolRecord", <<pool_name>>, TRUE) EXCEPT
          !.catalog.Pool = @ \cup {pool_name}, !.jr.PoolId = PoolId(pool_name)]
  ELSE [Called(c, "GetOrCreatePoolRecord", <<pool_name>>, FALSE) EXCEPT !.jr.PoolId = 0]

FilesetRecord(c) ==
  IF c.env.fail = "fileset"
  THEN Return(Called(c, "GetOrCreateFilesetRecord", <<>>, FALSE), FALSE)
  ELSE Calls(c, "GetOrCreateFilesetRecord", <<>>)

\* ApplyPoolOverrides: the pool configured for the level of the job, if one
\* is, takes the place of the pool of the job
ApplyPoolOverrides(c) ==
  IF c.done THEN c
  ELSE IF c.res.vfull_pool # NoPool
  THEN [c EXCEPT !.res.pool = c.res.vfull_pool, !.res.pool_source = "Job VFullPool override"]
  ELSE c

DuplicateJob(c) ==
  IF c.done THEN c
  ELSE IF c.env.fail = "duplicate"
  THEN Return(Called(c, "AllowDuplicateJob", <<>>, FALSE), FALSE)
  ELSE Calls(c, "AllowDuplicateJob", <<>>)

PoolRecord(c) ==
  IF c.done THEN c
  ELSE LET c1 == GetOrCreatePoolRecord(c, c.res.pool, c.env.fail # "pool record")
       IN IF c1.jr.PoolId = 0
          THEN Return(Jmsg(c1, "M_FATAL", "Could not get or create a Pool record", <<>>), FALSE)
          ELSE c1

ReadPool(c) ==
  IF c.done THEN c
  ELSE Calls([c EXCEPT !.res.rpool = c.res.pool, !.res.rpool_source = c.res.pool_source],
             "CopyRstorage", <<c.res.pool>>)

\* the start time is stamped; a start record that cannot be written is
\* reported and the init phase goes on
InitStartRecord(c) ==
  IF c.done THEN c
  ELSE LET c1 == [c EXCEPT !.start_time = c.env.now, !.jr.StartTime = c.env.now]
           c2 == Called([c1 EXCEPT !.catalog.Job = UpdateJobStartRecord(@, c1.jr,
                                                     c.env.fail # "start record")],
                        "UpdateJobStartRecord", <<>>, c.env.fail # "start record")
       IN IF c.env.fail = "start record"
          THEN Jmsg(c2, "M_FATAL", "UpdateJobStartRecord", <<>>)
          ELSE c2

\* the next pool of the job definition asked before the override of the run
NextPool_job_first(c) ==
  IF c.done THEN c
  ELSE IF c.job.next_pool # NoPool
  THEN [c EXCEPT !.res.next_pool = c.job.next_pool,
                 !.res.npool_source = "Job's NextPool resource",
                 !.res.pool_source = "Job's NextPool resource"]
  ELSE IF c.res.run_next_pool_override
  THEN [c EXCEPT !.res.npool_source = "Run NextPool override",
                 !.res.pool_source = "Run NextPool override"]
  ELSE [c EXCEPT !.res.next_pool = c.pools[c.res.pool],
                 !.res.npool_source = "Job Pool's NextPool resource",
                 !.res.pool_source = "Job Pool's NextPool resource"]

\* the next pool: the one a run override has put in res.next_pool, else the
\* one of the job definition, else the NextPool of the pool of the job
NextPool(c) ==
  IF c.done THEN c
  ELSE IF c.res.run_next_pool_override
  THEN [c EXCEPT !.res.npool_source = "Run NextPool override",
                 !.res.pool_source = "Run NextPool override"]
  ELSE IF c.job.next_pool # NoPool
  THEN [c EXCEPT !.res.next_pool = c.job.next_pool,
                 !.res.npool_source = "Job's NextPool resource",
                 !.res.pool_source = "Job's NextPool resource"]
  ELSE [c EXCEPT !.res.next_pool = c.pools[c.res.pool],
                 !.res.npool_source = "Job Pool's NextPool resource",
                 !.res.pool_source = "Job Pool's NextPool resource"]

NextPoolRecord(c) ==
  IF c.done \/ c.res.next_pool = NoPool THEN c
  ELSE LET c1 == GetOrCreatePoolRecord(c, c.res.next_pool, c.env.fail # "next pool record")
       IN IF c1.jr.PoolId = 0 THEN Return(c1, FALSE) ELSE c1

\* SetMigrationWstorage: the write storage comes from the next pool; none
\* without a next pool or without a storage in it
SetMigrationWstorage(c) ==
  IF c.done THEN c
  ELSE LET works == c.res.next_pool # NoPool /\ c.env.fail # "wstorage"
           c1 == Called(c, "SetMigrationWstorage", <<c.res.pool, c.res.next_pool>>, works)
       IN IF works THEN c1 ELSE Return(c1, FALSE)

WritePool(c) ==
  IF c.done THEN c
  ELSE Return([c EXCEPT !.res.pool = c.res.next_pool], TRUE)

\* the job on entry to the init phase
InitContext(env) ==
  [done |-> FALSE, ret |-> FALSE, env |-> env, trace |-> trace, catalog |-> catalog,
   res |-> jcr.res, job |-> jcr.job, pools |-> jcr.pools, jr |-> jcr.jr,
   start_time |-> jcr.start_time]

InitOf(env) ==
  WritePool(SetMigrationWstorage(NextPoolRecord(NextPool(InitStartRecord(ReadPool(
    PoolRecord(DuplicateJob(ApplyPoolOverrides(FilesetRecord(InitContext(env)))))))))))

DoNativeVbackupInit(fail) ==
  /\ pc = "init"
  /\ \E c \in {InitOf([fail |-> fail, now |-> InitTime])} :
       /\ catalog' = c.catalog
       /\ jcr' = [jcr EXCEPT !.res = c.res, !.jr = c.jr, !.start_time = c.start_time,
                             !.ret = c.ret]
       /\ trace' = c.trace
  /\ pc' = "initialised"
  /\ UNCHANGED <<devVars, bsrVars>>

\* a job before its init phase: the pool of the job, the pool of its level, the
\* next pool of the run that started it, the one of the job definition, and
\* the NextPool of the pools the job may be on.  A run override has set
\* res.next_pool and run_next_pool_override; without one res.next_pool is
\* not set or left from elsewhere
InitPhaseInit ==
  /\ DevIdle
  /\ \E vfull_pool \in {NoPool, "Consolidated"},
        run_next_pool \in {NoPool} \cup PoolNames,
        job_next_pool \in {NoPool} \cup PoolNames,
        stale \in {NoPool, "Scratch"},
        pools \in [JobPools -> {NoPool} \cup PoolNames] :
       jcr = [res |-> [pool |-> "Incremental", pool_source |-> "Job resource",
                       rpool |-> NoPool, rpool_source |-> "", npool_source |-> "",
                       vfull_pool |-> vfull_pool,
                       run_next_pool_override |-> run_next_pool # NoPool,
                       next_pool |-> IF run_next_pool # NoPool THEN run_next_pool
                                     ELSE stale],
              run |-> [next_pool |-> run_next_pool],
              job |-> [next_pool |-> job_next_pool],
              pools |-> pools,
              jr |-> [JobId |-> str_to_int64(ThisJob), PoolId |-> 0, StartTime |-> 0,
                      JobTDate |-> 0],
              start_time |-> 0,
              ret |-> FALSE]
  /\ catalog = [Pool |-> {"Incremental"},
                Job |-> (str_to_int64(ThisJob) :>
                           [present |-> TRUE, StartTime |-> 0, JobTDate |-> 0,
                            JobStatus |-> "JS_Created"])]
  /\ trace = <<>>
  /\ pc = "init"
  /\ delivered = <<>>
  /\ bsr = {}

InitPhaseNext == \E fail \in InitFailures : DoNativeVbackupInit(fail)

InitPhaseSpec == InitPhaseInit /\ [][InitPhaseNext]_vars

\* ---- the bootstrap of one file list
MaxRows == 3
MaxFileIndex == 2

FileListRows ==
  [Path : {"/"}, Filename : {"a", "b"}, FileIndex : 0..MaxFileIndex,
   JobId : SourceJobs]

BsrInit ==
  /\ DevIdle
  /\ catalog = <<>>
  /\ jcr \in {[jobid_list |-> l, ExpectedFiles |-> 0] : l \in JobidLists \ {<<>>}}
  /\ trace = <<>>
  /\ pc = "file list"
  /\ delivered = <<>>
  /\ bsr = {}

\* GetFileList hands one more row of a listed job to the handler, the rows
\* coming by ascending JobId
GetFileListRow(row) ==
  /\ pc = "file list"
  /\ Len(delivered) < MaxRows
  /\ \E i \in 1..Len(jcr.jobid_list) : jcr.jobid_list[i] = row.JobId
  /\ delivered # <<>> =>
       str_to_int64(delivered[Len(delivered)].JobId) <= str_to_int64(row.JobId)
  /\ delivered' = Append(delivered, row)
  /\ bsr' = InsertBootstrapHandler(bsr, row)
  /\ UNCHANGED <<devVars, dirVars>>

\* the file list is complete and the bootstrap is written
BootstrapWritten ==
  /\ pc = "file list"
  /\ pc' = "written"
  /\ jcr' = [jcr EXCEPT !.ExpectedFiles = WriteBsrFile(bsr)]
  /\ UNCHANGED <<devVars, catalog, trace, bsrVars>>

BsrNext ==
  \/ \E row \in FileListRows : GetFileListRow(row)
  \/ BootstrapWritten

BsrSpec == BsrInit /\ [][BsrNext]_vars

\* ------------------------------------------------------------------ claims
\* gather of block i into a destination of n cells, no read failing
Gathered(vol, i, n) == gather(vol, i, n, "none")

\* C1: round-trip law.  In every volume reached by scatter calls, for every
\* index i < size() and every destination size n >= the i-th block's BlockSize,
\* gather returns BlockSize and exactly the first BlockSize cells of the
\* buffer scattered as the i-th block (no segment read failing).
RoundTrip ==
  /\ Len(written) = vol_size(volume)
  /\ \A i \in 0..(vol_size(volume) - 1) :
       \A n \in 0..MaxLen :
         n >= written[i + 1][1] =>
           Gathered(volume, i, n) = [ret |-> written[i + 1][1], out |-> written[i + 1]]

\* a second block follows a first one, and its record declares more payload
\* than the block holds, of which a part was stored
RoundTripWitness ==
  /\ last = Ret("scatter", 3)
  /\ vol_size(volume) = 2
  /\ \E k \in 1..Len(volume.records) :
       /\ volume.records[k].BareosHeader > volume.records[k].size
       /\ volume.records[k].size > 0

\* C2: every scatter call that succeeds adds exactly one block to the volume
\* and returns the BlockSize the block header declares.
ScatterAddsOneBlock ==
  \A data \in Buffers :
    \A fail \in FailPoints :
      LET sc == scatter(volume, data, Len(data), fail)
      IN sc.ret # -1 =>
           /\ vol_size(sc.vol) = vol_size(volume) + 1
           /\ sc.ret = data[1]

\* a block of no records was scattered: BlockSize is the size of the header
ScatterAddsOneBlockWitness ==
  /\ last = Ret("scatter", blockheader_size)
  /\ vol_size(volume) >= 1
  /\ volume.blocks[vol_size(volume)].count = 0

\* the calls of one scatter come in the order data*, records, block, each
\* made only after the one before it has succeeded
InOrder(calls) ==
  \A k \in 1..Len(calls) :
    /\ k < Len(calls) => calls[k].ok
    /\ calls[k].op = "append_records" =>
         \A j \in 1..(k - 1) : calls[j].op = "append_data"
    /\ calls[k].op = "append_block" =>
         /\ k > 1
         /\ calls[k - 1].op = "append_records"
    /\ calls[k].op = "append_data" =>
         \A j \in 1..(k - 1) : calls[j].op = "append_data"

\* every block descriptor points at records that are there, and these at
\* payload that is there
Referenced(vol) ==
  \A b \in 1..Len(vol.blocks) :
    /\ vol.blocks[b].start + vol.blocks[b].count <= Len(vol.records)
    /\ \A k \in (vol.blocks[b].start + 1)..(vol.blocks[b].start + vol.blocks[b].count) :
         /\ k <= Len(vol.records)
         /\ vol.records[k].start + vol.records[k].size <= Len(vol.data)

\* C5: append-before-index ordering.  Within one scatter call append_records
\* comes only after every append_data has succeeded and append_block only
\* after append_records has succeeded; in every reachable state every block
\* descriptor's range lies within the records segment and every record it
\* reaches lies within the data segment.
AppendBeforeIndex ==
  /\ Referenced(volume)
  /\ \A data \in Buffers :
       \A fail \in FailPoints :
         LET sc == scatter(volume, data, Len(data), fail)
         IN /\ InOrder(sc.calls)
            /\ Referenced(sc.vol)
            /\ sc.ret # -1 =>
                 /\ Len(sc.calls) >= 2
                 /\ sc.calls[Len(sc.calls)] = Call("append_block", TRUE)

\* a scatter was cut short after it had appended records: they lie behind
\* the last block as garbage
AppendBeforeIndexWitness ==
  /\ last = Ret("scatter", -1)
  /\ ~volume.ok
  /\ vol_size(volume) >= 1
  /\ Len(volume.records) > SumOf(volume.blocks, "count")

\* the step is a d_write on the open volume with the descriptor of the open
\* volume
DWriteStep ==
  /\ open_volume
  /\ last'.op = "d_write"
  /\ last'.fd = fd_ctr

\* the cursor is where the relabel special case applies
RelabelCase == block_number(file, block_num) = 0 /\ vol_size(volume) = 1

\* C3: cursor invariant.  A d_write on an open volume whose cursor is not at
\* size() returns -1 and leaves the volume as it was, unless the cursor is
\* (0,0) and size() is 1.
CursorInvariant ==
  [][(/\ open_volume
      /\ last'.op = "d_write"
      /\ block_number(file, block_num) # vol_size(volume)
      /\ ~RelabelCase)
     => (last'.ret = -1 /\ volume' = volume)]_vars

\* three blocks were scattered, the cursor was put on (0,1), and a d_write
\* with the right descriptor was rejected
CursorInvariantWitness ==
  /\ last = RetFd("d_write", -1, fd_ctr)
  /\ open_volume
  /\ volume.ok
  /\ vol_size(volume) = 3
  /\ file = 0
  /\ block_num = 1

\* C4: relabel special case.  A d_write that succeeds with the cursor on
\* (0,0) and size() = 1 leaves a volume of one block, and gather(0) returns
\* the block just written.
RelabelResets ==
  [][(DWriteStep /\ RelabelCase /\ last'.ret # -1)
     => (/\ vol_size(volume') = 1
         /\ Len(written') = 1
         /\ last'.ret = written'[1][1]
         /\ \A n \in last'.ret..MaxLen :
              Gathered(volume', 0, n) = [ret |-> last'.ret, out |-> written'[1]])]_vars

\* the cursor is on (0,0), the one block of the volume came from a d_write
\* that reset the volume and succeeded, and it has a record with payload
RelabelResetsWitness ==
  /\ last = RetFdReset("d_write", 3, fd_ctr, TRUE)
  /\ open_volume
  /\ file = 0
  /\ block_num = 0
  /\ vol_size(volume) = 1
  /\ Len(volume.data) > 0

\* C6: a d_write that returns -1 leaves size() and every block gather can
\* read as they were before the call.
WriteAbortKeepsVolume ==
  [][(last'.op = "d_write" /\ last'.ret = -1)
     => (/\ vol_size(volume') = vol_size(volume)
         /\ \A i \in 0..(vol_size(volume) - 1) :
              \A n \in 0..MaxLen : Gathered(volume', i, n) = Gathered(volume, i, n))]_vars

\* ----------------------------------------------------- claims: consolidator
Emitted(type, text, arg) ==
  \E i \in 1..Len(trace) :
    /\ trace[i].kind = "Jmsg"
    /\ trace[i].type = type
    /\ trace[i].text = text
    /\ trace[i].arg = arg

CallResult(name, result) ==
  \E i \in 1..Len(trace) :
    trace[i].kind = "call" /\ trace[i].text = name /\ trace[i].type = result

\* the run got as far as the consistency query
Queried == \E result \in {"ok", "failed"} : CallResult("SqlQuery consistency", result)

NoCallFailed == \A i \in 1..Len(trace) : trace[i].kind = "call" => trace[i].type # "failed"

ListedIds(list) == {list[i] : i \in 1..Len(list)}
RowFor(id) == \E i \in 1..Len(jcr.cc_rows) : jcr.cc_rows[i].JobId = id
PurgedRowFor(id) ==
  \E i \in 1..Len(jcr.cc_rows) :
    jcr.cc_rows[i].JobId = id /\ jcr.cc_rows[i].PurgedFiles # <<0>>

This == str_to_int64(ThisJob)
J1 == str_to_int64(Head(jcr.jobid_list))
Jk == str_to_int64(jcr.jobid_list[Len(jcr.jobid_list)])

\* the run of a chain whose jobs are all in the catalog with their files,
\* whose worker ended JS_Terminated and whose catalog took every statement
ChainConsolidated ==
  /\ pc = "done"
  /\ jcr.jobid_list # <<>>
  /\ \A id \in ListedIds(jcr.jobid_list) : RowFor(id) /\ ~PurgedRowFor(id)
  /\ CallResult("WaitForStorageDaemonTermination", "JS_Terminated")
  /\ NoCallFailed

\* C7: level and times of the synthetic job.  After the run of a chain whose
\* jobs are all present and unpurged and whose worker ended JS_Terminated,
\* the job's level, in its record and in its catalog row, is the level of
\* the first job of the list, and StartTime, EndTime and JobTDate of the row
\* and of the record are those of the last job of the list, not the start
\* time stamped during the run.
LevelAndTimesOfChain ==
  ChainConsolidated =>
    /\ jcr.ret
    /\ jcr.jr.JobLevel = LevelOf(J1)
    /\ catalog[This].JobLevel = LevelOf(J1)
    /\ catalog[This].StartTime = SourceRow(Jk, 0).StartTime
    /\ catalog[This].EndTime = SourceRow(Jk, 0).EndTime
    /\ catalog[This].JobTDate = SourceRow(Jk, 0).JobTDate
    /\ jcr.jr.StartTime = SourceRow(Jk, 0).StartTime
    /\ jcr.jr.EndTime = SourceRow(Jk, 0).EndTime
    /\ jcr.jr.JobTDate = SourceRow(Jk, 0).JobTDate

LevelAndTimesOfChainWitness ==
  /\ ChainConsolidated
  /\ Len(jcr.jobid_list) = MaxJobs
  /\ J1 # Jk
  /\ catalog[This].JobLevel = LevelOf(J1)
  /\ catalog[This].StartTime = SourceRow(Jk, 0).StartTime
  /\ jcr.start_time # catalog[This].StartTime

\* C8: missing jobs.  After a run that made the consistency query, if the
\* query returned no row for some JobId of the list, the run returned false
\* and an error "JobId ... is not present in the catalog" names every such
\* JobId.
MissingJobsNamed ==
  (pc = "done" /\ Queried) =>
    \A id \in ListedIds(jcr.jobid_list) :
      ~RowFor(id) =>
        /\ ~jcr.ret
        /\ Emitted("M_ERROR", "is not present in the catalog", id)
        /\ Emitted("M_FATAL", "Jobs missing from catalog", <<>>)

MissingJobsNamedWitness ==
  /\ pc = "done"
  /\ CallResult("SqlQuery consistency", "ok")
  /\ ~jcr.ret
  /\ \E a, b, d \in ListedIds(jcr.jobid_list) :
       /\ a # b
       /\ ~RowFor(a) /\ ~RowFor(b) /\ RowFor(d)
       /\ Emitted("M_ERROR", "is not present in the catalog", a)
       /\ Emitted("M_ERROR", "is not present in the catalog", b)

\* C9: purged jobs.  After a run that made the consistency query, if the row
\* of some JobId of the list has PurgedFiles other than 0, the run returned
\* false and an error "Files for JobId ... have been purged from the
\* catalog" names every such JobId, whether or not other jobs are missing.
PurgedJobsNamed ==
  (pc = "done" /\ Queried) =>
    \A id \in ListedIds(jcr.jobid_list) :
      PurgedRowFor(id) =>
        /\ ~jcr.ret
        /\ Emitted("M_ERROR", "Files have been purged from the catalog", id)

\* the bootstrap the handler is said to build: for every file name among the
\* rows, the entry of the last row of that name
LastRowOf(rows, i) ==
  \A j \in (i + 1)..Len(rows) :
    ~(rows[j].Path = rows[i].Path /\ rows[j].Filename = rows[i].Filename)

MostRecentEntries(rows) ==
  {<<str_to_int64(rows[i].JobId), rows[i].FileIndex>> :
     i \in {j \in 1..Len(rows) : LastRowOf(rows, j)}}

\* C10: bootstrap deduplication.  For the rows of listed jobs delivered by
\* ascending JobId, none of a deleted file, the bootstrap holds exactly one
\* (JobId, FileIndex) entry per distinct (Path, Filename): that of the last
\* row delivered with that name.
BootstrapKeepsMostRecent ==
  (pc = "file list" /\ \A i \in 1..Len(delivered) : delivered[i].FileIndex # 0) =>
    bsr = MostRecentEntries(delivered)

\* the places of the trace where a collaborator was called
CallsOf(name) == {i \in 1..Len(trace) : trace[i].kind = "call" /\ trace[i].text = name}

\* the last step of the cleanup phase: the backup summary
Summaries ==
  {i \in 1..Len(trace) :
     /\ trace[i].kind = "Jmsg"
     /\ trace[i].text \in {"Backup OK", "Backup OK -- with warnings", "*** Backup Error ***",
                           "Backup Canceled", "Inappropriate term code"}}

Purges == CallsOf("PurgeJobsFromCatalog")

\* C11: purge of the consolidated jobs.  After a run whose worker ended
\* JS_Terminated with AlwaysIncremental and AlwaysIncrementalJobRetention both
\* set, PurgeJobsFromCatalog was called once, with the consolidated list, and
\* after the cleanup phase wrote the job end record and its summary; after a
\* run with either option unset it was not called.
PurgeAfterCleanup ==
  pc = "done" =>
    /\ (/\ CallResult("WaitForStorageDaemonTermination", "JS_Terminated")
        /\ jcr.job.AlwaysIncremental
        /\ jcr.job.AlwaysIncrementalJobRetention) =>
          /\ Cardinality(Purges) = 1
          /\ \A p \in Purges :
               /\ trace[p].arg = jcr.jobid_list
               /\ \E e \in CallsOf("UpdateJobEndRecord") : e < p
               /\ \E m \in Summaries : m < p
               /\ \A n \in ListedIds(jcr.jobid_list) : ~catalog[str_to_int64(n)].present
    /\ ~(jcr.job.AlwaysIncremental /\ jcr.job.AlwaysIncrementalJobRetention) =>
          Purges = {}

PurgeAfterCleanupWitness ==
  /\ pc = "done"
  /\ jcr.job.AlwaysIncremental
  /\ jcr.job.AlwaysIncrementalJobRetention
  /\ Len(jcr.jobid_list) > 1
  /\ \E p \in Purges : trace[p].arg = jcr.jobid_list
  /\ catalog[This].JobLevel = LevelOf(J1)

\* a job record of the list that could not be fetched
ListedRecordFailed ==
  \E i \in CallsOf("GetJobRecord") : trace[i].type = "failed" /\ trace[i].arg # ThisJob

\* the run did not pass validation: no list, a listed job without a row or
\* with purged files, a job record of the list not fetched, or a bootstrap
\* that names no file
ValidationFailed ==
  \/ jcr.jobid_list = <<>>
  \/ Queried /\ \E id \in ListedIds(jcr.jobid_list) : ~RowFor(id) \/ PurgedRowFor(id)
  \/ ListedRecordFailed
  \/ CallsOf("WriteBsrFile") # {} /\ jcr.ExpectedFiles = 0

\* C12: no connection before validation.  After a run in which the list was
\* empty, a listed JobId had no row, a listed job had purged files, the
\* record of the first or the last job could not be fetched, or the bootstrap
\* named no file, ConnectToStorageDaemon was never called and the run
\* returned false.
NoConnectBeforeValidation ==
  (pc = "done" /\ ValidationFailed) =>
    /\ CallsOf("ConnectToStorageDaemon") = {}
    /\ CallsOf("StartStorageDaemonJob") = {}
    /\ ~jcr.ret

NoConnectBeforeValidationWitness ==
  /\ pc = "done"
  /\ Len(jcr.jobid_list) > 1
  /\ \A id \in ListedIds(jcr.jobid_list) : RowFor(id)
  /\ \E id \in ListedIds(jcr.jobid_list) : PurgedRowFor(id)
  /\ Emitted("M_FATAL", "At least one job's files were pruned", <<>>)
  /\ CallsOf("ConnectToStorageDaemon") = {}

\* C13: one volume at a time.  A d_open while a volume is open returns -1 and
\* leaves the open volume and fd_ctr as they were; a d_close with a
\* descriptor other than fd_ctr returns -1 and leaves the volume open or
\* closed as it was; a d_close that returns 0 leaves no volume open.
OneVolumeAtATime ==
  [][/\ (last'.op = "d_open" /\ open_volume) =>
          (last'.ret = -1 /\ open_volume' /\ volume' = volume /\ fd_ctr' = fd_ctr)
     /\ (last'.op = "d_close" /\ last'.fd # fd_ctr) =>
          (last'.ret = -1 /\ open_volume' = open_volume /\ volume' = volume)
     /\ (last'.op = "d_close" /\ last'.ret = 0) => ~open_volume']_vars

\* a volume with a block in it is open and a d_close with a stale descriptor
\* was just rejected
OneVolumeAtATimeWitness ==
  /\ open_volume
  /\ vol_size(volume) > 0
  /\ last.op = "d_close"
  /\ last.ret = -1
  /\ last.fd # fd_ctr

\* C14: truncate keeps the configuration.  A d_truncate of the open volume
\* that returns true leaves an open volume of size 0 with the name, the
\* permissions and the block size the volume had before, whether the volume
\* was reset in place or erased and created again.
TruncateKeepsConfig ==
  [][(open_volume /\ last'.op = "d_truncate" /\ last'.ret = 1) =>
       /\ open_volume'
       /\ vol_size(volume') = 0
       /\ volume_config'.name = volume_config.name
       /\ volume_config'.permissions = volume_config.permissions
       /\ volume_config'.blocksize = volume_config.blocksize]_vars

\* the places of the trace' of the next state where a collaborator was called
CallsThen(name) ==
  {i \in 1..Len(trace') : trace'[i].kind = "call" /\ trace'[i].text = name}

RefetchFailed ==
  \E i \in CallsOf("GetJobRecord") : trace[i].type = "failed" /\ trace[i].arg = ThisJob

\* C16: catalog failure after success.  After a run whose worker ended
\* JS_Terminated, if the UPDATE that sets StartTime, EndTime and JobTDate to
\* those of previous_jr failed, or the re-fetch of the job row failed, the
\* status of the job is JS_ErrorTerminated.
CatalogFailureDowngrades ==
  (/\ pc = "done"
   /\ CallResult("WaitForStorageDaemonTermination", "JS_Terminated")
   /\ (CallResult("SqlQuery update times", "failed") \/ RefetchFailed)) =>
    jcr.JobStatus = "JS_ErrorTerminated"

\* the backup summaries of the trace of the next state
SummariesThen ==
  {i \in 1..Len(trace') :
     /\ trace'[i].kind = "Jmsg"
     /\ trace'[i].text \in {"Backup OK", "Backup OK -- with warnings", "*** Backup Error ***",
                            "Backup Canceled", "Inappropriate term code"}}

\* the replication INSERTs of the next state that failed
ReplicationsFailedThen ==
  {i \in CallsThen("SqlQuery replicate deleted files") : trace'[i].type = "failed"}

\* C17: replication failure is a warning.  A run whose INSERT of the deleted
\* files fails emits a warning for it and goes on to UpdateBootstrapFile and
\* the backup summary; it ends with the status, the return value and the
\* Job table of the run in which everything else is the same and the INSERT
\* succeeds.
ReplicationFailureWarnsOnly ==
  [][(pc = "run" /\ pc' = "done" /\ ReplicationsFailedThen # {}) =>
       /\ \A r \in ReplicationsFailedThen :
            /\ trace'[r + 1].kind = "Jmsg"
            /\ trace'[r + 1].type = "M_WARNING"
            /\ \E u \in CallsThen("UpdateBootstrapFile") : r < u
            /\ \E m \in SummariesThen : r < m
       /\ \A env \in Envs :
            (env.fail = "replicate" /\ Ahead(env) = jcr'.env) =>
              \E twin \in {RunOf([env EXCEPT !.fail = "none"])} :
                /\ twin.JobStatus = jcr'.JobStatus
                /\ twin.ret = jcr'.ret
                /\ twin.catalog = catalog']_vars

\* a run that consolidated two jobs, failed to replicate their deleted files
\* and ended "Backup OK"
ReplicationFailureWarnsOnlyWitness ==
  /\ pc = "done"
  /\ Len(jcr.jobid_list) > 1
  /\ CallResult("SqlQuery replicate deleted files", "failed")
  /\ Emitted("M_WARNING", "Error replicating deleted files", <<>>)
  /\ Emitted("M_INFO", "Backup OK", <<>>)
  /\ jcr.JobStatus = "JS_Terminated"
  /\ jcr.ret

\* a read of a segment that fails while block i is gathered: of the block
\* header, or of the descriptors or the payload of a block that has records
FailingReads(vol, i) ==
  {"block"} \cup (IF read_block(vol, i).block.count > 0 THEN {"records", "data"} ELSE {})

\* C18: gather reports read failures.  For every block of a volume reached by
\* scatter calls and every destination size, gather returns -1 when the read
\* of the block header, of the record descriptors or of the payload fails,
\* and when BlockSize exceeds the destination size; for an index past the
\* last block it returns -1 as well.
GatherReportsReadFailure ==
  /\ \A n \in 0..MaxLen : Gathered(volume, vol_size(volume), n).ret = -1
  /\ \A i \in 0..(vol_size(volume) - 1) :
       \A n \in 0..MaxLen :
         /\ read_block(volume, i).block.BareosHeader > n => Gathered(volume, i, n).ret = -1
         /\ \A rfail \in FailingReads(volume, i) : gather(volume, i, n, rfail).ret = -1

\* C19: device life cycle.  MountBackend returns true only when the device
\* was not mounted, d_open returns a descriptor only when the device is
\* mounted, UnmountBackend returns true only when the device was mounted with
\* no volume open; so whenever a volume is open the device is mounted.
MountedWhileOpen ==
  [][/\ (last'.op = "MountBackend" /\ last'.ret = TRUE) => ~mounted
     /\ (last'.op = "d_open" /\ last'.ret # -1) => mounted
     /\ (last'.op = "UnmountBackend" /\ last'.ret = TRUE) => (mounted /\ ~open_volume)
     /\ open_volume' => mounted']_vars

\* the pool of the job once its overrides are applied: the read pool
JobPool == IF jcr.res.vfull_pool # NoPool THEN jcr.res.vfull_pool ELSE jcr.res.pool

\* the write pool by precedence: the next pool of the run override, else the
\* one of the job definition, else the NextPool of the pool of the job
WritePoolByPrecedence ==
  IF jcr.res.run_next_pool_override THEN jcr.run.next_pool
  ELSE IF jcr.job.next_pool # NoPool THEN jcr.job.next_pool
  ELSE jcr.pools[JobPool]

EotAtOrPastLastBlock ==
  (open_volume /\ eot) => block_number(file, block_num) + 1 >= vol_size(volume)

\* C22: eod puts the cursor at the end.  After eod on an open volume the
\* cursor is (size() div 2^32, size() mod 2^32), both words in range, so that
\* block_number(file, block_num) = size(); EOT is set; the volume is as it
\* was; and a d_write that follows passes the position check: without the
\* relabel reset, its result is the one of scatter.
EodCursorAtEnd ==
  [][(open_volume /\ last'.op = "eod") =>
       /\ file' \in 0..(Word - 1)
       /\ block_num' \in 0..(Word - 1)
       /\ file' * Word + block_num' = vol_size(volume)
       /\ block_number(file', block_num') = vol_size(volume')
       /\ eot'
       /\ volume' = volume
       /\ written' = written
       /\ \A data \in DevBuffers :
            \E w \in {d_write_volume(volume', written', block_number(file', block_num'),
                                     data, Len(data), <<"none", 0>>)} :
              /\ ~w.reset
              /\ w.ret = scatter(volume', data, Len(data), <<"none", 0>>).ret]_vars

\* eod on a volume of 2^32 blocks: the cursor is in the second file
EodCursorAtEndWitness ==
  /\ open_volume
  /\ last.op = "eod"
  /\ vol_size(volume) = Word
  /\ file = 1
  /\ block_num = 0
  /\ eot

\* C23: no volume open.  With no volume open d_read, d_write and d_close
\* return -1, rewind, Reposition, eod, d_flush and d_truncate return false,
\* and none of them moves the cursor or changes EOT.
ClosedDeviceReportsFailure ==
  [][~open_volume =>
       /\ last'.op \in {"d_read", "d_write", "d_close"} => last'.ret = -1
       /\ last'.op \in {"rewind", "Reposition", "eod", "d_flush"} => last'.ret = FALSE
       /\ last'.op = "d_truncate" => last'.ret = 0
       /\ last'.op \in {"d_read", "d_write", "d_close", "rewind", "Reposition", "eod",
                        "d_flush", "d_truncate"} =>
            (file' = file /\ block_num' = block_num /\ eot' = eot)]_vars

\* C24: init stops at the first failure.  After a DoNativeVbackupInit in
\* which a step failed (the FileSet record, the duplicate job check, a pool
\* record, the update of the job start row, the write storage), the init
\* phase has returned false and has made no call after the one that failed.
InitStopsAtFailure ==
  pc = "initialised" =>
    \A i \in 1..Len(trace) :
      (trace[i].kind = "call" /\ trace[i].type = "failed") =>
        /\ ~jcr.ret
        /\ \A j \in (i + 1)..Len(trace) : trace[j].kind # "call"

\* the steps of a run from the bootstrap to the end of the worker
WorkerSteps ==
  <<"WriteBsrFile", "ConnectToStorageDaemon", "StartStorageDaemonJob",
    "UpdateJobStartRecord", "fsend run", "StartStorageDaemonMessageThread",
    "WaitForStorageDaemonTermination", "WriteBatchFileRecords">>

\* C25: order of the worker steps.  In every run each of the steps bootstrap
\* written, ConnectToStorageDaemon, StartStorageDaemonJob (with send_bsr),
\* UpdateJobStartRecord (with a fresh start time), "run" sent, message thread
\* started, WaitForStorageDaemonTermination, WriteBatchFileRecords is made once
\* at most and only after the step before it was made and did not fail; a
\* step that fails is the last one and the run returns false; a run that
\* reaches the worker has made them all.
WorkerStepsInOrder ==
  pc = "done" =>
    /\ \A k \in 1..Len(WorkerSteps) : Cardinality(CallsOf(WorkerSteps[k])) <= 1
    /\ \A k \in 2..Len(WorkerSteps) :
         \A i \in CallsOf(WorkerSteps[k]) :
           \E j \in CallsOf(WorkerSteps[k - 1]) : j < i /\ trace[j].type # "failed"
    /\ \A k \in 2..(Len(WorkerSteps) - 1) :
         \A i \in CallsOf(WorkerSteps[k]) :
           trace[i].type = "failed" =>
             (~jcr.ret /\ \A j \in (i + 1)..Len(trace) : trace[j].kind # "call")
    /\ \A i \in CallsOf("StartStorageDaemonJob") : trace[i].arg = <<"send_bsr">>
    /\ CallResult("UpdateJobStartRecord", "ok") => jcr.start_time > InitTime

\* a run of two jobs that went through every step; its worker ended with
\* warnings
WorkerStepsInOrderWitness ==
  /\ pc = "done"
  /\ Len(jcr.jobid_list) > 1
  /\ CallResult("WaitForStorageDaemonTermination", "JS_Warnings")
  /\ \A k \in 1..Len(WorkerSteps) : CallsOf(WorkerSteps[k]) # {}
  /\ jcr.start_time = InitTime + 1
  /\ ~jcr.ret

\* C26: purge only after a good end.  After a run in which
\* PurgeJobsFromCatalog was called, the status of the job, as the cleanup
\* phase before the purge left it, is JS_Terminated or JS_Warnings.
PurgeOnlyAfterGoodEnd ==
  (pc = "done" /\ Purges # {}) => jcr.JobStatus \in {"JS_Terminated", "JS_Warnings"}

\* C27: the missing-job report is sound.  After a run, every JobId named in
\* an error "JobId ... is not present in the catalog" is a member of the
\* consolidation list for which the consistency query returned no row, and
\* "Jobs missing from catalog" was emitted only if some listed JobId has no
\* row.
MissingReportSound ==
  pc = "done" =>
    /\ \A i \in 1..Len(trace) :
         (trace[i].kind = "Jmsg" /\ trace[i].text = "is not present in the catalog") =>
           (trace[i].arg \in ListedIds(jcr.jobid_list) /\ ~RowFor(trace[i].arg))
    /\ Emitted("M_FATAL", "Jobs missing from catalog", <<>>) =>
         \E id \in ListedIds(jcr.jobid_list) : ~RowFor(id)

====
